---------------------------- MODULE Spec2Model ----------------------------
(***************************************************************************)
(* Model of chat_app.py: the /chat relay (chat), the thinking-block        *)
(* extractor (process_thinking_response), the show/hide toggle             *)
(* (toggle_thinking) and the Streamlit page (main, submit_message).        *)
(*                                                                         *)
(* Text is a sequence of one-character strings, so that the regular        *)
(* expression, str.strip and string concatenation are computed character   *)
(* by character.  Python's None is the one-element sequence <<"None">>,    *)
(* which no text equals (every element of a text is one character).        *)
(* Python list indices are 0-based; TLA+ sequences are 1-based: the turn   *)
(* the code calls chat_history[i] is chat_history[i + 1] here.             *)
(***************************************************************************)
EXTENDS Integers, Sequences, FiniteSets, TLC

VARIABLES
    chat_history,       \* st.session_state["chat_history"]
    model_used,         \* st.session_state["model_used_<k>"], k -> display name
    thinking_expanded,  \* st.session_state["thinking_expanded"], key i -> bool
    selected_model,     \* st.session_state["selected_model"]
    page,               \* what the last run of main() put on the page
    api_call,           \* the last call of chat: its arguments and its value
    response,           \* the argument of process_thinking_response
    extraction          \* its value, <<>> before the call

vars == <<chat_history, model_used, thinking_expanded, selected_model, page,
          api_call, response, extraction>>

-----------------------------------------------------------------------------
(* Text *)

None == <<"None">>

\* str.strip() removes these from both ends (the ASCII ones TLA+ can write).
Whitespace == {" ", "\t", "\n", "\r", "\f"}

RECURSIVE lstrip(_)
lstrip(s) ==
    IF s # <<>> /\ Head(s) \in Whitespace THEN lstrip(Tail(s)) ELSE s

RECURSIVE rstrip(_)
rstrip(s) ==
    IF s # <<>> /\ s[Len(s)] \in Whitespace
    THEN rstrip(SubSeq(s, 1, Len(s) - 1))
    ELSE s

strip(s) == rstrip(lstrip(s))

\* f"{x}": None formats as the text None.
Format(x) == IF x = None THEN <<"N", "o", "n", "e">> ELSE x

\* Python truthiness of a value that is None or a text.
Truthy(x) == x # None /\ x # <<>>

-----------------------------------------------------------------------------
(* process_thinking_response: r'<think>(.*?)</think>' with re.DOTALL *)

OpenTag == <<"<", "t", "h", "i", "n", "k", ">">>
CloseTag == <<"<", "/", "t", "h", "i", "n", "k", ">">>

\* The literal tag stands at position i of s.
LiteralAt(s, tag, i) ==
    /\ i >= 1
    /\ i + Len(tag) - 1 <= Len(s)
    /\ SubSeq(s, i, i + Len(tag) - 1) = tag

NoMatch == <<>>

\* (.*?)</think> from position j on: the lazy group grows one character at a
\* time (any character, newline included: DOTALL) until the close tag stands
\* at j.  The result is the position of the close tag, 0 if there is none.
RECURSIVE LazyClose(_, _)
LazyClose(s, j) ==
    IF j + Len(CloseTag) - 1 > Len(s) THEN 0
    ELSE IF LiteralAt(s, CloseTag, j) THEN j
    ELSE LazyClose(s, j + 1)

\* The match that starts at position i, if any: <<start, close tag position>>.
MatchAt(s, i) ==
    IF ~LiteralAt(s, OpenTag, i) THEN NoMatch
    ELSE LET c == LazyClose(s, i + Len(OpenTag))
         IN  IF c = 0 THEN NoMatch ELSE <<i, c>>

\* re.search from position pos: the leftmost start that matches.
RECURSIVE re_search(_, _)
re_search(s, pos) ==
    IF pos > Len(s) THEN NoMatch
    ELSE IF MatchAt(s, pos) # NoMatch THEN MatchAt(s, pos)
    ELSE re_search(s, pos + 1)

MatchEnd(m) == m[2] + Len(CloseTag)
Group1(s, m) == SubSeq(s, m[1] + Len(OpenTag), m[2] - 1)

\* re.sub with count=1: the first match only is replaced.
re_sub_first(s, pos) ==
    LET m == re_search(s, pos)
    IN  IF m = NoMatch THEN SubSeq(s, pos, Len(s))
        ELSE SubSeq(s, pos, m[1] - 1) \o SubSeq(s, MatchEnd(m), Len(s))

\* re.sub(pattern, '', s): every non-overlapping match, left to right, is
\* replaced by the empty string; the text between the matches is kept.
RECURSIVE re_sub(_, _)
re_sub(s, pos) ==
    LET m == re_search(s, pos)
    IN  IF m = NoMatch THEN SubSeq(s, pos, Len(s))
        ELSE SubSeq(s, pos, m[1] - 1) \o re_sub(s, MatchEnd(m))

\* The extractor, were it to trim the reply it finds no region in.
process_thinking_response_trimmed(r) ==
    LET match == re_search(r, 1)
    IN  IF match # NoMatch
        THEN <<strip(Group1(r, match)), strip(re_sub(r, 1))>>
        ELSE <<None, strip(r)>>

\* <<thinking, main_response>>
process_thinking_response(r) ==
    LET match == re_search(r, 1)
    IN  IF match # NoMatch
        THEN <<strip(Group1(r, match)), strip(re_sub(r, 1))>>
        ELSE <<None, r>>

-----------------------------------------------------------------------------
(* Dictionaries (JSON objects, st.session_state entries) *)

EmptyDict == [k \in {} |-> k]

\* d.get(k, default)
Get(d, k, default) == IF k \in DOMAIN d THEN d[k] ELSE default

\* d[k] = v
Put(d, k, v) == [x \in DOMAIN d \cup {k} |-> IF x = k THEN v ELSE d[x]]

-----------------------------------------------------------------------------
(* The model registry *)

AVAILABLE_MODELS ==
    [n \in {"Llama 3.3 70B", "Llama 3.1 8B", "DeepSeek R1 Distill Qwen 32B",
            "Llama Guard 3 8B"} |->
        CASE n = "Llama 3.3 70B" -> "llama-3.3-70b-versatile"
          [] n = "Llama 3.1 8B" -> "llama-3.1-8b-instant"
          [] n = "DeepSeek R1 Distill Qwen 32B" -> "deepseek-r1-distill-qwen-32b"
          [] n = "Llama Guard 3 8B" -> "llama-guard-3-8b"]

THINKING_MODELS == {"deepseek-r1-distill-qwen-32b"}

-----------------------------------------------------------------------------
(* chat: POST /chat *)

NoResponse == <<"N", "o", " ", "r", "e", "s", "p", "o", "n", "s", "e">>

Turn(role, content) == [role |-> role, content |-> content]

\* chat_history + [{"role": "user", "content": user_message}]: a new list.
ChatMessages(request) ==
    Get(request, "history", <<>>) \o <<Turn("user", request.message)>>

\* The request body posted to the provider.
ChatPayload(request) ==
    [model |-> Get(request, "model", "llama-3.3-70b-versatile"),
     messages |-> ChatMessages(request),
     temperature |-> "0.7"]

\* data.get("choices", [{}])[0].get("message", {}).get("content", "No response")
\* The value is <<"raise", exception>> where the expression raises.
ReplyOf(data) ==
    LET choices == Get(data, "choices", <<EmptyDict>>)
    IN  IF Len(choices) = 0 THEN <<"raise", "IndexError">>
        ELSE <<"value",
               Get(Get(choices[1], "message", EmptyDict), "content", NoResponse)>>

\* The HTTP response FastAPI gives for an HTTPException.
HTTPException(status_code, detail) ==
    [status |-> status_code, json |-> TRUE, body |-> [detail |-> detail]]

\* The HTTP response FastAPI gives when the handler raises anything else: the
\* plain text Internal Server Error, which is not JSON.
InternalServerError == [status |-> 500, json |-> FALSE, body |-> EmptyDict]

\* The handler, were it to build the messages with chat_history.append(...):
\* the list in the caller's request grows by the user turn.
chat_in_place(request, provider) ==
    IF ~Truthy(Get(request, "message", None))
    THEN [result |-> HTTPException(400, "Missing 'message' in request"),
          payload |-> EmptyDict,
          request |-> request]
    ELSE LET messages == ChatMessages(request)
             reply == ReplyOf(provider.data)
         IN  [result |->
                 IF provider.kind # "ok"
                 THEN HTTPException(500, "Failed to fetch response from LLM")
                 ELSE IF reply[1] = "raise" THEN InternalServerError
                 ELSE [status |-> 200, json |-> TRUE,
                       body |-> [response |-> reply[2],
                                 history |-> messages
                                     \o <<Turn("assistant", reply[2])>>]],
              payload |-> ChatPayload(request),
              request |->
                 IF "history" \in DOMAIN request
                 THEN [request EXCEPT !.history = messages]
                 ELSE request]

\* The handler.  request is the JSON object of the call; provider is what the
\* provider does with the payload: [kind |-> "connection_error"] when
\* requests.post raises, [kind |-> "http_error"] when the status is not 2xx
\* and raise_for_status raises (both a RequestException), and
\* [kind |-> "ok", data |-> the JSON object of its body] otherwise.
\* The value has the HTTP response, the payload posted (EmptyDict when none
\* was) and the caller's request object as the call leaves it.
chat(request, provider) ==
    IF ~Truthy(Get(request, "message", None))
    THEN [result |-> HTTPException(400, "Missing 'message' in request"),
          payload |-> EmptyDict,
          request |-> request]
    ELSE LET messages == ChatMessages(request)
             reply == ReplyOf(provider.data)
         IN  [result |->
                 IF provider.kind # "ok"
                 THEN HTTPException(500, "Failed to fetch response from LLM")
                 ELSE IF reply[1] = "raise" THEN InternalServerError
                 ELSE [status |-> 200, json |-> TRUE,
                       body |-> [response |-> reply[2],
                                 history |-> messages
                                     \o <<Turn("assistant", reply[2])>>]],
              payload |-> ChatPayload(request),
              request |-> request]

-----------------------------------------------------------------------------
(* toggle_thinking *)

\* The toggle, were it to store a new dictionary holding the one key.
toggle_thinking_alone(expanded, key) ==
    [x \in {key} |-> ~Get(expanded, key, FALSE)]

\* st.session_state["thinking_expanded"][key] = not ....get(key, False)
toggle_thinking(expanded, key) == Put(expanded, key, ~Get(expanded, key, FALSE))

-----------------------------------------------------------------------------
(* main: the chat history as the page shows it *)

\* One element of the page.  key is the Python index of the turn it shows;
\* text is the text put between the element's markup.
Element(kind, key, text) == [kind |-> kind, key |-> key, text |-> text]

\* The button's label, without its leading arrow glyph.
ShowThinking ==
    <<"S", "h", "o", "w", " ", "t", "h", "i", "n", "k", "i", "n", "g">>
HideThinking ==
    <<"H", "i", "d", "e", " ", "t", "h", "i", "n", "k", "i", "n", "g">>

\* The elements shown for the assistant turn at Python index i.  The last one
\* is an "exception" element where the script raises: re.search on a content
\* that is None raises TypeError, and the run of main() stops there.
AssistantElements(history, used, expanded, i) ==
    LET assistant_msg == history[i + 1]
        model_key == Get(used, i \div 2, "Llama 3.3 70B")
        content == assistant_msg.content
        raw == <<Element("bot", i, Format(content))>>
    IN  IF AVAILABLE_MODELS[model_key] \in THINKING_MODELS
        THEN IF content = None
             THEN <<Element("exception", i, <<>>)>>
             ELSE LET r == process_thinking_response(content)
                      thinking == r[1]
                      main_response == r[2]
                      is_expanded == Get(expanded, i, FALSE)
                  IN  IF Truthy(thinking)
                      THEN <<Element("toggle", i,
                                IF ~is_expanded THEN ShowThinking
                                ELSE HideThinking)>>
                           \o (IF is_expanded
                               THEN <<Element("thinking", i, thinking)>>
                               ELSE <<>>)
                           \o <<Element("bot", i, main_response)>>
                      ELSE raw
        ELSE raw

Raised(elements) ==
    elements # <<>> /\ elements[Len(elements)].kind = "exception"

\* The while loop over the history, from Python index i on.
RECURSIVE DisplayFrom(_, _, _, _)
DisplayFrom(history, used, expanded, i) ==
    IF i >= Len(history) THEN <<>>
    ELSE LET user == <<Element("user", i, Format(history[i + 1].content))>>
         IN  IF i + 1 >= Len(history) THEN user
             ELSE LET bot == AssistantElements(history, used, expanded, i + 1)
                  IN  IF Raised(bot) THEN user \o bot
                      ELSE user \o bot
                           \o DisplayFrom(history, used, expanded, i + 2)

\* One run of main(): the elements of the history, and whether the run got as
\* far as the message form (it does not when the display raised).
main(history, used, expanded) ==
    LET elements == DisplayFrom(history, used, expanded, 0)
    IN  [elements |-> elements, form |-> ~Raised(elements)]

-----------------------------------------------------------------------------
(* submit_message: the form's on_click callback *)

ErrorFetching ==
    <<"E", "r", "r", "o", "r", " ", "f", "e", "t", "c", "h", "i", "n", "g",
      " ", "r", "e", "s", "p", "o", "n", "s", "e">>

\* The callback, were it to append the user turn before the request: a request
\* that raises leaves the user turn without its assistant turn.
submit_message_user_first(history, used, model_key, user_input, relay_up, provider) ==
    LET unchanged(why) ==
            [chat_history |-> history, model_used |-> used, outcome |-> why]
    IN  IF ~Truthy(strip(user_input)) THEN unchanged("ignored")
        ELSE LET user_message == strip(user_input)
                 model_name == AVAILABLE_MODELS[model_key]
                 call == chat([message |-> user_message,
                               history |-> history,
                               model |-> model_name], provider)
                 result == call.result.body
                 reply == Get(result, "response", ErrorFetching)
                 conversation_index == Len(history) \div 2
                 with_user == history \o <<Turn("user", user_message)>>
             IN  IF ~relay_up \/ ~call.result.json
                 THEN [chat_history |-> with_user, model_used |-> used,
                       outcome |-> "RequestException"]
                 ELSE [chat_history |-> with_user
                           \o <<Turn("assistant", reply)>>,
                       model_used |-> Put(used, conversation_index, model_key),
                       outcome |-> "appended"]

\* The callback, were it to index the table by the length of the history
\* instead of half of it.
submit_message_by_length(history, used, model_key, user_input, relay_up, provider) ==
    LET unchanged(why) ==
            [chat_history |-> history, model_used |-> used, outcome |-> why]
    IN  IF ~Truthy(strip(user_input)) THEN unchanged("ignored")
        ELSE LET user_message == strip(user_input)
                 model_name == AVAILABLE_MODELS[model_key]
                 call == chat([message |-> user_message,
                               history |-> history,
                               model |-> model_name], provider)
                 result == call.result.body
                 reply == Get(result, "response", ErrorFetching)
                 conversation_index == Len(history)
             IN  IF ~relay_up THEN unchanged("RequestException")
                 ELSE IF ~call.result.json THEN unchanged("JSONDecodeError")
                 ELSE [chat_history |-> history
                           \o <<Turn("user", user_message),
                                Turn("assistant", reply)>>,
                       model_used |-> Put(used, conversation_index, model_key),
                       outcome |-> "appended"]

\* relay_up: whether requests.post reaches the relay (it raises a
\* RequestException when it does not).  A response whose body is not JSON makes
\* response.json() raise JSONDecodeError; the callback ends there, with the
\* session state as it was.
submit_message(history, used, model_key, user_input, relay_up, provider) ==
    LET unchanged(why) ==
            [chat_history |-> history, model_used |-> used, outcome |-> why]
    IN  IF ~Truthy(strip(user_input)) THEN unchanged("ignored")
        ELSE LET user_message == strip(user_input)
                 model_name == AVAILABLE_MODELS[model_key]
                 call == chat([message |-> user_message,
                               history |-> history,
                               model |-> model_name], provider)
                 result == call.result.body
                 reply == Get(result, "response", ErrorFetching)
                 conversation_index == Len(history) \div 2
             IN  IF ~relay_up THEN unchanged("RequestException")
                 ELSE IF ~call.result.json THEN unchanged("JSONDecodeError")
                 ELSE [chat_history |-> history
                           \o <<Turn("user", user_message),
                                Turn("assistant", reply)>>,
                       model_used |-> Put(used, conversation_index, model_key),
                       outcome |-> "appended"]

-----------------------------------------------------------------------------
(* Bounds and inputs *)

MaxExchanges == 2
MaxPieces == 5

\* What the user types into the form.
UserInputs == {<<>>, <<" ">>, <<" ", "h", "i", "\n">>}

\* Reply texts of the provider.
Replies ==
    {<<>>,
     OpenTag \o <<"x", "\n">> \o CloseTag \o <<"\n", "a">>,
     OpenTag \o CloseTag \o <<"a">>,
     OpenTag \o <<"\n">> \o CloseTag \o <<"a">>}

Reply(r) == [choices |-> <<[message |-> [content |-> r]]>>]

\* The JSON bodies a provider answers with to a call of the relay.
ProviderData ==
    {EmptyDict,
     [choices |-> <<>>],
     [choices |-> <<EmptyDict>>],
     [choices |-> <<[message |-> EmptyDict]>>],
     [choices |-> <<[message |-> [content |-> None]]>>]}
    \cup {Reply(r) : r \in Replies \cup {<<"a">>}}

Failures == {[kind |-> "connection_error"], [kind |-> "http_error"]}

Ok(d) == [kind |-> "ok", data |-> d]

Providers == Failures \cup {Ok(d) : d \in ProviderData}

\* What the provider does during a session: one body for each reply the relay
\* can draw from it.
SessionProviders ==
    Failures
    \cup {Ok(EmptyDict), Ok([choices |-> <<>>]),
          Ok([choices |-> <<[message |-> [content |-> None]]>>])}
    \cup {Ok(Reply(r)) : r \in Replies}

\* The models the user picks in the sidebar.
ModelChoices == DOMAIN AVAILABLE_MODELS

-----------------------------------------------------------------------------
(* The session: one action per user interaction, each the callback followed
   by the rerun of main() *)

Init ==
    /\ chat_history = <<>>
    /\ model_used = EmptyDict
    /\ thinking_expanded = EmptyDict
    /\ selected_model = "Llama 3.3 70B"
    /\ page = main(<<>>, EmptyDict, EmptyDict)
    /\ api_call = EmptyDict
    /\ response = <<>>
    /\ extraction = <<>>

\* The user sends the form.
Submit(user_input, relay_up, provider) ==
    /\ page.form
    /\ Len(chat_history) < 2 * MaxExchanges
    /\ LET s == submit_message(chat_history, model_used, selected_model,
                               user_input, relay_up, provider)
       IN  /\ chat_history' = s.chat_history
           /\ model_used' = s.model_used
           /\ page' = main(s.chat_history, s.model_used, thinking_expanded)
    /\ UNCHANGED <<thinking_expanded, selected_model, api_call, response,
                   extraction>>

\* The user picks a model in the sidebar.
SelectModel(m) ==
    /\ selected_model' = m
    /\ page' = main(chat_history, model_used, thinking_expanded)
    /\ UNCHANGED <<chat_history, model_used, thinking_expanded, api_call, response,
                   extraction>>

\* The toggle button of the turn at Python index key is on the page.
HasToggle(key) ==
    \E n \in 1..Len(page.elements) :
        page.elements[n].kind = "toggle" /\ page.elements[n].key = key

\* The user presses it.
Toggle(key) ==
    /\ HasToggle(key)
    /\ thinking_expanded' = toggle_thinking(thinking_expanded, key)
    /\ page' = main(chat_history, model_used, thinking_expanded')
    /\ UNCHANGED <<chat_history, model_used, selected_model, api_call, response,
                   extraction>>

Next ==
    \/ \E u \in UserInputs, up \in BOOLEAN, p \in SessionProviders :
          Submit(u, up, p)
    \/ \E m \in ModelChoices : SelectModel(m)
    \/ \E k \in 0..(2 * MaxExchanges) : Toggle(k)

Spec == Init /\ [][Next]_vars

-----------------------------------------------------------------------------
(* The relay alone: any client calls POST /chat *)

\* Histories a client sends.
Histories ==
    {<<>>,
     <<Turn("user", <<"h", "i">>)>>,
     <<Turn("user", <<"h", "i">>), Turn("assistant", <<"a">>)>>,
     <<Turn("assistant", <<"a">>), Turn("user", <<"h", "i">>),
       Turn("user", <<"y", "o">>)>>}

\* Request bodies: message, history and model are each present or absent.
Requests ==
    LET messages == {[message |-> m] : m \in {<<>>, <<" ">>, <<"y", "o">>}}
                    \cup {EmptyDict}
        histories == {[history |-> h] : h \in Histories} \cup {EmptyDict}
        models == {[model |-> "llama-3.1-8b-instant"], EmptyDict}
        merge(a, b) ==
            [k \in DOMAIN a \cup DOMAIN b |->
                IF k \in DOMAIN a THEN a[k] ELSE b[k]]
    IN  {merge(m, merge(h, n)) : m \in messages, h \in histories, n \in models}

InitRelay ==
    /\ Init

ApiChat(request, provider) ==
    /\ api_call' = [request |-> request, provider |-> provider,
                value |-> chat(request, provider)]
    /\ UNCHANGED <<chat_history, model_used, thinking_expanded, selected_model,
                   page, response, extraction>>

NextRelay == \E r \in Requests, p \in Providers : ApiChat(r, p)

SpecRelay == InitRelay /\ [][NextRelay]_vars

-----------------------------------------------------------------------------
(* The extractor alone *)

Pieces ==
    {OpenTag, CloseTag, <<"<", "t", "h", "i">>, <<"n", "k", ">">>, <<"a">>,
     <<"\n">>}

\* Every text made of at most n pieces.
RECURSIVE Texts(_)
Texts(n) ==
    IF n = 0 THEN {<<>>}
    ELSE LET shorter == Texts(n - 1)
         IN  shorter \cup {p \o t : p \in Pieces, t \in shorter}

InitExtract ==
    /\ chat_history = <<>>
    /\ model_used = EmptyDict
    /\ thinking_expanded = EmptyDict
    /\ selected_model = "Llama 3.3 70B"
    /\ page = main(<<>>, EmptyDict, EmptyDict)
    /\ api_call = EmptyDict
    /\ response \in Texts(MaxPieces)
    /\ extraction = <<>>

Extract ==
    /\ extraction = <<>>
    /\ extraction' = process_thinking_response(response)
    /\ UNCHANGED <<chat_history, model_used, thinking_expanded, selected_model,
                   page, api_call, response>>

NextExtract == Extract

SpecExtract == InitExtract /\ [][NextExtract]_vars

-----------------------------------------------------------------------------
(* What the claims speak of *)

Opens(s) == {i \in 1..Len(s) : LiteralAt(s, OpenTag, i)}
Closes(s) == {j \in 1..Len(s) : LiteralAt(s, CloseTag, j)}

\* s holds an open tag followed, later, by a close tag: a complete region.
HasRegion(s) ==
    \E i \in Opens(s), j \in Closes(s) : j >= i + Len(OpenTag)

\* The open tags that some close tag follows, each with its nearest one.
Nearest(s) ==
    {r \in Opens(s) \X Closes(s) :
        /\ r[2] >= r[1] + Len(OpenTag)
        /\ \A j \in Closes(s) : j >= r[1] + Len(OpenTag) => j >= r[2]}

\* Position n of the text lies in the region r (tags included).
Inside(r, n) == r[1] <= n /\ n < r[2] + Len(CloseTag)

\* D is the set of regions one pass from left to right removes: regions that
\* do not overlap, such that every open tag a close tag follows starts one of
\* them or lies inside one.
OnePass(s, D) ==
    /\ D \subseteq Nearest(s)
    /\ \A r \in D, q \in D : r # q => ~Inside(r, q[1])
    /\ \A q \in Nearest(s) : \E r \in D : Inside(r, q[1])

\* s without the positions that lie in a region of D.
RECURSIVE Without(_, _, _)
Without(s, D, n) ==
    IF n > Len(s) THEN <<>>
    ELSE (IF \E r \in D : Inside(r, n) THEN <<>> ELSE <<s[n]>>)
         \o Without(s, D, n + 1)

\* The leftmost region of s.
Leftmost(s) ==
    CHOOSE r \in Nearest(s) : \A q \in Nearest(s) : r[1] <= q[1]

Inner(s, r) == SubSeq(s, r[1] + Len(OpenTag), r[2] - 1)

Extracted == extraction # <<>>
Found == Extracted /\ HasRegion(response)

AssistantKeys == {i \in 0..(Len(chat_history) - 1) : i % 2 = 1}

IsReasoning(model_key) == AVAILABLE_MODELS[model_key] \in THINKING_MODELS

Expanded(expanded, key) == Get(expanded, key, FALSE)

-----------------------------------------------------------------------------
(* The claims *)

\* C1: a submission whose provider call fails (a status that is not 2xx, or
\* the request raising) leaves the transcript as it was.
C1_FailedSubmissionKeepsTranscript ==
    [][\A u \in UserInputs, p \in Failures :
          Submit(u, TRUE, p) => chat_history' = chat_history]_vars

\* C2: the transcript holds complete exchanges only: its length is even,
\* every even Python index holds a user turn and every odd one an assistant
\* turn.
C2_CompleteExchanges ==
    /\ Len(chat_history) % 2 = 0
    /\ \A n \in 1..Len(chat_history) :
          chat_history[n].role = IF n % 2 = 1 THEN "user" ELSE "assistant"

\* C2 witness: two exchanges, the first the one of a submission whose
\* provider call failed, and one more.
C2_Witness ==
    /\ Len(chat_history) = 4
    /\ chat_history[2].content = ErrorFetching
    /\ chat_history[4].content # ErrorFetching

\* The provider's body carries no usable reply text.
NoUsableReply(data) ==
    \/ "choices" \notin DOMAIN data
    \/ Len(data.choices) = 0
    \/ "message" \notin DOMAIN data.choices[1]
    \/ "content" \notin DOMAIN data.choices[1].message
    \/ data.choices[1].message.content = None

Called == "request" \in DOMAIN api_call
CalledWithMessage == Called /\ Truthy(Get(api_call.request, "message", None))

\* C3: when the provider answers successfully with no usable reply text, the
\* relay answers 200 with the response "No response", and the history it
\* returns ends with the assistant turn "No response".
C3_PlaceholderForNoUsableReply ==
    (/\ CalledWithMessage
     /\ api_call.provider.kind = "ok"
     /\ NoUsableReply(api_call.provider.data))
    => LET result == api_call.value.result
       IN  /\ result.status = 200
           /\ result.body.response = NoResponse
           /\ result.body.history[Len(result.body.history)]
                 = Turn("assistant", NoResponse)

\* C4 as stated: where the reply holds a region the extractor finds it,
\* reasoning is the trimmed inner text of the leftmost region, visibleAnswer
\* is the raw text with every region removed, trimmed, visibleAnswer holds no
\* complete region, and extracting from it again finds nothing.
C4_VisibleAnswerHasNoRegion ==
    Found =>
        /\ extraction[1] # None
        /\ extraction[1] = strip(Inner(response, Leftmost(response)))
        /\ \E D \in SUBSET Nearest(response) :
              /\ OnePass(response, D)
              /\ extraction[2] = strip(Without(response, D, 1))
        /\ ~HasRegion(extraction[2])
        /\ process_thinking_response(extraction[2])[1] = None

\* C4 as amended: where the reply holds a region the extractor finds it,
\* reasoning is the trimmed inner text of the leftmost region, and
\* visibleAnswer is the raw text with every region that one pass from left to
\* right finds removed, trimmed.  (The texts left and right of a removed
\* region can join into a new region, which stays.)
C4_OnePassRemoval ==
    Found =>
        /\ extraction[1] # None
        /\ extraction[1] = strip(Inner(response, Leftmost(response)))
        /\ \E D \in SUBSET Nearest(response) :
              /\ OnePass(response, D)
              /\ extraction[2] = strip(Without(response, D, 1))

\* C4 witness: two regions, the first with an inner text, both removed.
C4_Witness ==
    /\ Found
    /\ Cardinality(Nearest(response)) >= 2
    /\ extraction[1] = <<"a">>
    /\ ~HasRegion(extraction[2])

\* C5: a raw reply with no open tag that a close tag follows comes back
\* as it is, untrimmed, with no reasoning.
C5_NotFoundReturnsRaw ==
    (Extracted /\ ~HasRegion(response)) => extraction = <<None, response>>

\* C5 witness: an unterminated open tag after a close tag, with whitespace at
\* both ends.
C5_Witness ==
    /\ response = <<"\n">> \o CloseTag \o OpenTag \o <<"a", "\n">>
    /\ extraction = <<None, response>>

\* C6: the bot text shown for an assistant turn is the extractor's
\* visibleAnswer of the turn's content when the model recorded for the turn
\* is a reasoning model, and the content itself otherwise; the text shown for
\* a turn of a reasoning model holds no complete region.
C6_ReasoningTurnsShowVisibleAnswer ==
    \A n \in 1..Len(page.elements) :
        LET e == page.elements[n]
            content == chat_history[e.key + 1].content
        IN  e.kind = "bot" =>
                IF IsReasoning(model_used[e.key \div 2])
                THEN /\ e.text = process_thinking_response(content)[2]
                     /\ ~HasRegion(e.text)
                ELSE e.text = Format(content)

\* C7: the model-used table has one entry for each exchange of the transcript
\* and no other, an entry is written with the model selected at the
\* submission that appends its exchange, and no step changes an entry.
C7_ModelUsedTable ==
    /\ [](DOMAIN model_used = 0..((Len(chat_history) \div 2) - 1))
    /\ [][/\ \A k \in DOMAIN model_used :
                k \in DOMAIN model_used' /\ model_used'[k] = model_used[k]
          /\ \A k \in DOMAIN model_used' \ DOMAIN model_used :
                /\ k = Len(chat_history) \div 2
                /\ model_used'[k] = selected_model
                /\ Len(chat_history') = Len(chat_history) + 2]_vars

\* C7 witness: two exchanges submitted under different models, and a third
\* model selected since.
C7_Witness ==
    /\ DOMAIN model_used = {0, 1}
    /\ model_used[0] # model_used[1]
    /\ selected_model \notin {model_used[0], model_used[1]}

\* C8: for a call with a message, the messages posted to the provider are the
\* history in its order followed by one user turn with the message; on
\* success the history returned is these followed by one assistant turn whose
\* content is the response returned; and the caller's request is as it was.
C8_MessagesAndHistory ==
    CalledWithMessage =>
        LET request == api_call.request
            value == api_call.value
            h == IF "history" \in DOMAIN request THEN request.history ELSE <<>>
            sent == h \o <<[role |-> "user", content |-> request.message]>>
        IN  /\ value.payload.messages = sent
            /\ value.result.status = 200 =>
                  value.result.body.history
                      = sent \o <<[role |-> "assistant",
                                   content |-> value.result.body.response]>>
            /\ value.request = request

\* C8 witness: a successful call with a history of three turns.
C8_Witness ==
    /\ CalledWithMessage
    /\ api_call.value.result.status = 200
    /\ "history" \in DOMAIN api_call.request
    /\ Len(api_call.request.history) = 3
    /\ Len(api_call.value.result.body.history) = 5

\* C9: a submission whose input is empty after trimming makes no call of the
\* relay and changes neither the transcript nor the model-used table; and
\* every turn of the transcript has a content that is not empty.
C9_EmptyInputRejectedAndTurnsNonEmpty ==
    /\ [][\A u \in UserInputs, up \in BOOLEAN, p \in SessionProviders :
            (strip(u) = <<>> /\ Submit(u, up, p)) =>
                /\ submit_message(chat_history, model_used, selected_model,
                                  u, up, p).outcome = "ignored"
                /\ chat_history' = chat_history
                /\ model_used' = model_used]_vars
    /\ [](\A n \in 1..Len(chat_history) : chat_history[n].content # <<>>)

\* C10: a toggle flips the flag of its turn and no other, and leaves the
\* transcript and the model-used table alone; an absent flag is hidden, the
\* thinking section is on the page exactly when the flag is set, and two
\* toggles give back the visibility; a step that changes the transcript
\* changes no flag.
C10_TogglePerTurn ==
    /\ [][/\ \A k \in AssistantKeys :
                Toggle(k) =>
                    /\ Expanded(thinking_expanded', k)
                          = ~Expanded(thinking_expanded, k)
                    /\ \A j \in AssistantKeys \ {k} :
                          Expanded(thinking_expanded', j)
                              = Expanded(thinking_expanded, j)
                    /\ chat_history' = chat_history
                    /\ model_used' = model_used
          /\ thinking_expanded' # thinking_expanded =>
                \E k \in AssistantKeys : Toggle(k)
          /\ chat_history' # chat_history =>
                thinking_expanded' = thinking_expanded]_vars
    /\ [](\A k \in AssistantKeys :
            HasToggle(k) =>
                  /\ Expanded(thinking_expanded, k)
                        = (\E n \in 1..Len(page.elements) :
                              /\ page.elements[n].kind = "thinking"
                              /\ page.elements[n].key = k)
                  /\ Expanded(toggle_thinking(
                         toggle_thinking(thinking_expanded, k), k), k)
                        = Expanded(thinking_expanded, k))

\* C10 witness: two turns with a toggle, the first shown and the second, never
\* toggled, hidden.
C10_Witness ==
    /\ HasToggle(1)
    /\ HasToggle(3)
    /\ DOMAIN thinking_expanded = {1}
    /\ thinking_expanded[1]

=============================================================================
